---- MODULE Spec2Model ----
(***************************************************************************)
(* Model of the conserved <-> primitive variable conversions of            *)
(* src/eos/ideal_mhd.hpp (ideal-gas MHD, non-relativistic and special      *)
(* relativistic).                                                          *)
(*                                                                         *)
(* The type Real of the code is a binary floating-point type.  It is       *)
(* modelled as binary floating point with Prec significant bits, every     *)
(* operation rounded to nearest (ties to even), with infinities and NaN.   *)
(* The exponent is an unbounded integer: overflow and underflow of the     *)
(* exponent are not modelled, and zero is unsigned.                        *)
(***************************************************************************)
EXTENDS Integers, Sequences, FiniteSets

\* significant bits of a Real of the model
Prec == 11

(***************************************************************************)
(* Real arithmetic.  A Real is a record [k, m, e]: k = "F" a finite value  *)
(* m * 2^e with m = 0 (and e = 0) or 2^(Prec-1) <= |m| < 2^Prec; k = "I"   *)
(* an infinity of sign m; k = "N" a NaN.                                   *)
(***************************************************************************)
\* the element of a one-element set: {F(x) : x \in {v}} is F of the value of v
The(S) == CHOOSE y \in S : TRUE

Pow2(i) == 2^i

RECURSIVE BitLen(_)
BitLen(n) == IF n = 0 THEN 0 ELSE 1 + The({BitLen(h) : h \in {n \div 2}})

Sgn(n) == IF n < 0 THEN -1 ELSE IF n > 0 THEN 1 ELSE 0
AbsInt(n) == IF n < 0 THEN -n ELSE n

Zero == [k |-> "F", m |-> 0, e |-> 0]
NaN == [k |-> "N", m |-> 0, e |-> 0]
Inf(s) == [k |-> "I", m |-> s, e |-> 0]

IsFinite(a) == a.k = "F"
IsNaN(a) == a.k = "N"
IsInf(a) == a.k = "I"

\* the quotient q rounded to nearest, ties to even, by the remainder rem
RoundQ(q, rem, half) ==
  IF rem > half \/ (rem = half /\ q % 2 = 1) THEN q + 1 ELSE q

\* the finite value s * q1 * 2^e for a rounded q1 <= 2^Prec
Pack(s, q1, e) ==
  IF q1 = Pow2(Prec) THEN [k |-> "F", m |-> s * Pow2(Prec - 1), e |-> e + 1]
  ELSE [k |-> "F", m |-> s * q1, e |-> e]

\* s * n * 2^e for n > 0 with k bits more than Prec
NormBits(s, n, e, k) ==
  IF k <= 0 THEN [k |-> "F", m |-> s * n * Pow2(-k), e |-> e + k]
  ELSE The({Pack(s, q1, e + k) :
              q1 \in {RoundQ(n \div Pow2(k), n % Pow2(k), Pow2(k - 1))}})

\* s * n * 2^e rounded to Prec bits, to nearest, ties to even, for the
\* value n >= 0
NormNat(s, n, e) ==
  IF n = 0 THEN Zero
  ELSE The({NormBits(s, n, e, k) : k \in {BitLen(n) - Prec}})

Norm(s, n, e) == The({NormNat(s, x, e) : x \in {n}})

\* n * 2^e rounded, for an integer n of either sign
NormInt(n, e) == The({NormNat(Sgn(x), AbsInt(x), e) : x \in {n}})

FromInt(n) == Norm(Sgn(n), AbsInt(n), 0)

Neg(a) == The({[x EXCEPT !.m = -x.m] : x \in {a}})
Fabs(a) == The({[x EXCEPT !.m = AbsInt(x.m)] : x \in {a}})

\* sum of two finite nonzero values, big.e >= small.e
AddAligned(big, small) ==
  IF big.e - small.e > Prec + 2
  THEN NormInt(4 * big.m + Sgn(small.m), big.e - 2)
  ELSE NormInt(big.m * Pow2(big.e - small.e) + small.m, small.e)

\* sum of two finite values
AddFinite(a, b) ==
  IF a.m = 0 THEN b
  ELSE IF b.m = 0 THEN a
  ELSE IF a.e >= b.e THEN AddAligned(a, b) ELSE AddAligned(b, a)

\* a + b of two values
AddReal(a, b) ==
  IF IsNaN(a) \/ IsNaN(b) THEN NaN
  ELSE IF IsInf(a) /\ IsInf(b) THEN (IF a.m = b.m THEN a ELSE NaN)
  ELSE IF IsInf(a) THEN a
  ELSE IF IsInf(b) THEN b
  ELSE AddFinite(a, b)

Add(a, b) == The({AddReal(x, y) : x \in {a}, y \in {b}})

Sub(a, b) == Add(a, Neg(b))

\* a * b of two values
MulReal(a, b) ==
  IF IsNaN(a) \/ IsNaN(b) THEN NaN
  ELSE IF IsInf(a) \/ IsInf(b)
    THEN (IF a.m = 0 \/ b.m = 0 THEN NaN ELSE Inf(Sgn(a.m) * Sgn(b.m)))
  ELSE Norm(Sgn(a.m) * Sgn(b.m), AbsInt(a.m) * AbsInt(b.m), a.e + b.e)

Mul(a, b) == The({MulReal(x, y) : x \in {a}, y \in {b}})

\* s * (n / d) * 2^e rounded, for integers n >= 0, d > 0
DivInt(s, n, d, e) ==
  Norm(s, 2 * (n \div d) + (IF n % d = 0 THEN 0 ELSE 1), e - 1)

\* a / b of two values
DivReal(a, b) ==
  IF IsNaN(a) \/ IsNaN(b) THEN NaN
  ELSE IF IsInf(a) THEN (IF IsInf(b) THEN NaN
                         ELSE Inf(a.m * (IF b.m < 0 THEN -1 ELSE 1)))
  ELSE IF IsInf(b) THEN Zero
  ELSE IF b.m = 0 THEN (IF a.m = 0 THEN NaN ELSE Inf(Sgn(a.m)))
  ELSE DivInt(Sgn(a.m) * Sgn(b.m), AbsInt(a.m) * Pow2(Prec + 1), AbsInt(b.m),
              a.e - b.e - Prec - 1)

Div(a, b) == The({DivReal(x, y) : x \in {a}, y \in {b}})

\* integer square root (Newton's iteration from above)
RECURSIVE ISqrtFrom(_, _)
ISqrtStep(x, r, r1) == IF r1 >= r THEN r ELSE ISqrtFrom(x, r1)
ISqrtFrom(x, r) ==
  The({ISqrtStep(x, r, r1) : r1 \in {(r + x \div r) \div 2}})
ISqrt(x) == IF x = 0 THEN 0 ELSE ISqrtFrom(x, Pow2((BitLen(x) + 1) \div 2))

\* the bits the radicand is extended by before the integer root
SqrtShift == Prec + 2 + (Prec % 2)

\* sqrt(x) * 2^e rounded, from the integer root s of x
SqrtInt(x, s, e) == Norm(1, 2 * s + (IF s * s = x THEN 0 ELSE 1), e - 1)

\* sqrt(n0 * 2^e0) for an even exponent e0
SqrtEven(n0, e0) ==
  The({The({SqrtInt(x, s, (e0 - SqrtShift) \div 2) : s \in {ISqrt(x)}}) :
         x \in {n0 * Pow2(SqrtShift)}})

\* sqrt of a value
SqrtReal(a) ==
  IF IsNaN(a) THEN NaN
  ELSE IF a.m < 0 THEN NaN
  ELSE IF IsInf(a) THEN a
  ELSE IF a.m = 0 THEN Zero
  ELSE IF a.e % 2 = 1 THEN SqrtEven(2 * a.m, a.e - 1)
  ELSE SqrtEven(a.m, a.e)

Sqrt(a) == The({SqrtReal(x) : x \in {a}})

\* a < b, a <= b, a = b as the comparison operators of the code (false on NaN)
LtReal(a, b) ==
  IF IsNaN(a) \/ IsNaN(b) THEN FALSE
  ELSE IF IsInf(a) THEN a.m < 0 /\ ~(IsInf(b) /\ b.m < 0)
  ELSE IF IsInf(b) THEN b.m > 0
  ELSE AddFinite(a, Neg(b)).m < 0
LeReal(a, b) ==
  IF IsNaN(a) \/ IsNaN(b) THEN FALSE
  ELSE a = b \/ LtReal(a, b)
Lt(a, b) == The({LtReal(x, y) : x \in {a}, y \in {b}})
Le(a, b) == The({LeReal(x, y) : x \in {a}, y \in {b}})
Ge(a, b) == Le(b, a)
Gt(a, b) == Lt(b, a)

\* fmax of the C library: a NaN argument is ignored
FmaxReal(a, b) ==
  IF IsNaN(a) THEN b
  ELSE IF IsNaN(b) THEN a
  ELSE IF LtReal(a, b) THEN b ELSE a
Fmax(a, b) == The({FmaxReal(x, y) : x \in {a}, y \in {b}})

SQR(a) == The({MulReal(x, x) : x \in {a}})

\* the literals 1.0, 2.0 and 0.5
One == [k |-> "F", m |-> Pow2(Prec - 1), e |-> 1 - Prec]
Two == [k |-> "F", m |-> Pow2(Prec - 1), e |-> 2 - Prec]
Half == [k |-> "F", m |-> Pow2(Prec - 1), e |-> 0 - Prec]
\* n/d rounded
Rat(n, d) == Div(FromInt(n), FromInt(d))


(***************************************************************************)
(* Constants of the code.                                                  *)
(***************************************************************************)
max_iterations == 25
\* the literal 1.0e-12
tol == Div(One, Mul(FromInt(1000000), FromInt(1000000)))

(***************************************************************************)
(* Non-relativistic converters.  A conserved state is a record             *)
(* [d, mx, my, mz, e, bx, by, bz], a primitive state [d, vx, vy, vz, e].   *)
(***************************************************************************)
gm1Of(eos) == Sub(eos.gamma, One)

\* the density floor left out
FlooredDensityNone(d, dfloor) == d

\* the density floor shared by both converters: the density it leaves
FlooredDensity(d, dfloor) == IF Lt(d, dfloor) THEN dfloor ELSE d
\* the flag never raised
DensityFlagKept(d, dfloor, dfloor_used) == dfloor_used

\* the flag dfloor_used after the density floor
DensityFlag(d, dfloor, dfloor_used) == IF Lt(d, dfloor) THEN TRUE ELSE dfloor_used

KineticEnergy(di, u) ==
  Mul(Mul(Half, di), Add(Add(SQR(u.mx), SQR(u.my)), SQR(u.mz)))
MagneticEnergy(u) ==
  Mul(Half, Add(Add(SQR(u.bx), SQR(u.by)), SQR(u.bz)))

\* the total energy written back when the energy floor is applied
CorrectedEnergy(efloor, e_k, e_m) == Add(Add(efloor, e_k), e_m)

\* SingleC2P_IdealMHD from the internal energy we before its floor: the
\* conserved state, the primitive state and the flags after the call
C2P_MHD_Floor(u, eos, ud, di, efloor, e_k, e_m, we, dfloor_used, efloor_used) ==
  [u |-> [u EXCEPT !.d = ud,
                   !.e = IF Lt(we, efloor) THEN CorrectedEnergy(efloor, e_k, e_m)
                         ELSE u.e],
   w |-> [d |-> ud, vx |-> Mul(di, u.mx), vy |-> Mul(di, u.my),
          vz |-> Mul(di, u.mz), e |-> IF Lt(we, efloor) THEN efloor ELSE we],
   dfloor_used |-> DensityFlag(u.d, eos.dfloor, dfloor_used),
   efloor_used |-> IF Lt(we, efloor) THEN TRUE ELSE efloor_used]

\* SingleC2P_IdealMHD from the kinetic and the magnetic energy
C2P_MHD_Energy(u, eos, ud, di, efloor, e_k, e_m, dfloor_used, efloor_used) ==
  The({C2P_MHD_Floor(u, eos, ud, di, efloor, e_k, e_m, we,
                     dfloor_used, efloor_used) :
         we \in {Sub(Sub(u.e, e_k), e_m)}})

\* SingleC2P_IdealMHD from the floored density ud and di = 1/ud
C2P_MHD_Velocity(u, eos, ud, di, dfloor_used, efloor_used) ==
  The({C2P_MHD_Energy(u, eos, ud, di, efloor, e_k, e_m,
                      dfloor_used, efloor_used) :
         efloor \in {Div(eos.pfloor, gm1Of(eos))},
         e_k \in {KineticEnergy(di, u)}, e_m \in {MagneticEnergy(u)}})

\* SingleC2P_IdealMHD from the floored density ud
C2P_MHD_Density(u, eos, ud, dfloor_used, efloor_used) ==
  The({C2P_MHD_Velocity(u, eos, ud, di, dfloor_used, efloor_used) :
         di \in {Div(One, ud)}})

SingleC2P_IdealMHD(u, eos, dfloor_used, efloor_used) ==
  The({C2P_MHD_Density(u, eos, ud, dfloor_used, efloor_used) :
         ud \in {FlooredDensity(u.d, eos.dfloor)}})

\* SingleP2C_IdealMHD without the magnetic energy
SingleP2C_NoMagnetic(w) ==
  [d  |-> w.d,
   mx |-> Mul(w.d, w.vx),
   my |-> Mul(w.d, w.vy),
   mz |-> Mul(w.d, w.vz),
   e  |-> Add(w.e, Mul(Half,
            Mul(w.d, Add(Add(SQR(w.vx), SQR(w.vy)), SQR(w.vz)))))]

\* SingleP2C_IdealMHD: w is a primitive state with the magnetic field
SingleP2C_IdealMHD(w) ==
  [d  |-> w.d,
   mx |-> Mul(w.d, w.vx),
   my |-> Mul(w.d, w.vy),
   mz |-> Mul(w.d, w.vz),
   e  |-> Add(w.e, Mul(Half,
            Add(Mul(w.d, Add(Add(SQR(w.vx), SQR(w.vy)), SQR(w.vz))),
                Add(Add(SQR(w.bx), SQR(w.by)), SQR(w.bz)))))]

\* the 4-magnetic field component from the field b and the velocity v
P2C_SR_Field(b, v, b0, u0) == Div(Add(b, Mul(b0, v)), u0)

\* b_sq from the 4-magnetic field
P2C_SR_Bsq(b0, b1, b2, b3) ==
  Add(Add(Add(Neg(SQR(b0)), SQR(b1)), SQR(b2)), SQR(b3))

\* the momentum component from the velocity v and the field component bi
P2C_SR_Momentum(wtot_u02, v, u0, b0, bi) ==
  Sub(Div(Mul(wtot_u02, v), u0), Mul(b0, bi))

\* the conserved quantities from wtot_u02 and u.d
P2C_SR_Set(w, gam, u0, b0, b1, b2, b3, b_sq, wtot_u02, ud) ==
  [d  |-> ud,
   e  |-> Sub(Sub(Sub(wtot_u02, Mul(b0, b0)),
                  Add(Mul(Sub(gam, One), w.e), Mul(Half, b_sq))), ud),
   mx |-> P2C_SR_Momentum(wtot_u02, w.vx, u0, b0, b1),
   my |-> P2C_SR_Momentum(wtot_u02, w.vy, u0, b0, b2),
   mz |-> P2C_SR_Momentum(wtot_u02, w.vz, u0, b0, b3)]

\* the conserved quantities from b_sq
P2C_SR_Total(w, gam, u0, b0, b1, b2, b3, b_sq) ==
  The({P2C_SR_Set(w, gam, u0, b0, b1, b2, b3, b_sq, wtot_u02, ud) :
         wtot_u02 \in {Mul(Mul(Add(Add(w.d, Mul(gam, w.e)), b_sq), u0), u0)},
         ud \in {Mul(w.d, u0)}})

\* the conserved quantities from the 4-magnetic field
P2C_SR_Cons(w, gam, u0, b0, b1, b2, b3) ==
  The({P2C_SR_Total(w, gam, u0, b0, b1, b2, b3, b_sq) :
         b_sq \in {P2C_SR_Bsq(b0, b1, b2, b3)}})

\* the conserved quantities from the Lorentz factor u0 and b0
P2C_SR_Lorentz(w, gam, u0, b0) ==
  The({P2C_SR_Cons(w, gam, u0, b0, b1, b2, b3) :
         b1 \in {P2C_SR_Field(w.bx, w.vx, b0, u0)},
         b2 \in {P2C_SR_Field(w.by, w.vy, b0, u0)},
         b3 \in {P2C_SR_Field(w.bz, w.vz, b0, u0)}})

\* SingleP2C_IdealSRMHD: w is a primitive state with the magnetic field
SingleP2C_IdealSRMHD(w, gam) ==
  The({P2C_SR_Lorentz(w, gam, u0, b0) :
         u0 \in {Sqrt(Add(Add(Add(One, SQR(w.vx)), SQR(w.vy)), SQR(w.vz)))},
         b0 \in {Add(Add(Mul(w.bx, w.vx), Mul(w.by, w.vy)),
                     Mul(w.bz, w.vz))}})

(***************************************************************************)
(* Master functions of the relativistic converter.                         *)
(***************************************************************************)
\* x of eq. (26)
Xof(mu, b2) == Div(One, Add(One, Mul(mu, b2)))

\* rbar of eq. (38), as both master functions and the postprocessing form it
Rbar(mu, x, r, rp) ==
  Add(Mul(Mul(Mul(x, x), r), r),
      Mul(Mul(Mul(Mul(mu, x), Add(One, x)), rp), rp))

\* Equation49 without its "- 1"
Eq49ValueNoOne(mu, rbar) == Mul(mu, Sqrt(Add(One, rbar)))

\* the value of Equation49 from rbar
Eq49Value(mu, rbar) == Sub(Mul(mu, Sqrt(Add(One, rbar))), One)

\* rbar from mu and the recast variables
RbarAt(mu, b2, r, rp) == The({Rbar(mu, x, r, rp) : x \in {Xof(mu, b2)}})

Equation49(mu, b2, rp, r, q) == Eq49Value(mu, RbarAt(mu, b2, r, rp))

\* qbar of eq. (31)
Qbar(mu, b2, rpar, rbar, q) ==
  Sub(Sub(q, Mul(Half, b2)),
      Mul(Half, Mul(Mul(mu, mu), Sub(Mul(b2, rbar), Mul(rpar, rpar)))))

\* z2 of eq. (32)
Z2(mu, rbar) ==
  Div(Mul(Mul(mu, mu), rbar), Fabs(Sub(One, Mul(SQR(mu), rbar))))

\* eps before the floor, from the Lorentz factor w
EpsOf(w, mu, rbar, qbar, z2) ==
  Add(Mul(w, Sub(qbar, Mul(mu, rbar))), Div(z2, Add(w, One)))

\* the floor of eps at the rest density wd
EpsMin(eos, wd) == Div(eos.pfloor, Mul(wd, gm1Of(eos)))

\* h of eq. (43)
Enthalpy(eos, eps) == Add(One, Mul(eos.gamma, eps))

\* the value of Equation44, eq. (45)
Eq44Value(mu, rbar, w, h) == Sub(mu, Div(One, Add(Div(h, w), Mul(rbar, mu))))

\* Equation44 from the Lorentz factor w
Eq44Lorentz(mu, rbar, qbar, z2, w, u_d, eos) ==
  Eq44Value(mu, rbar, w,
    Enthalpy(eos, Fmax(EpsMin(eos, Div(u_d, w)), EpsOf(w, mu, rbar, qbar, z2))))

\* Equation44 from z2
Eq44Z2(mu, rbar, qbar, z2, u_d, eos) ==
  The({Eq44Lorentz(mu, rbar, qbar, z2, w, u_d, eos) :
         w \in {Sqrt(Add(One, z2))}})

\* Equation44 from rbar
Eq44Rbar(mu, b2, rpar, q, rbar, u_d, eos) ==
  The({Eq44Z2(mu, rbar, qbar, z2, u_d, eos) :
         qbar \in {Qbar(mu, b2, rpar, rbar, q)}, z2 \in {Z2(mu, rbar)}})

Equation44(mu, b2, rpar, r, q, u_d, eos) ==
  The({Eq44Rbar(mu, b2, rpar, q, rbar, u_d, eos) :
         rbar \in {RbarAt(mu, b2, r, rpar)}})

(***************************************************************************)
(* SingleC2P_IdealSRMHD, in the pieces its control flow has.  par holds    *)
(* the recast variables [q, r, bx, by, bz, b2, rpar]; s the solver's       *)
(* locals [zm, zp, fm, fp, z, iter, iterations].                           *)
(***************************************************************************)
\* the combined energy floor of the relativistic converter
SREnergyFloor(eos, b2) == Add(Div(eos.pfloor, gm1Of(eos)), Mul(Half, b2))

\* the energy floor assigned whether or not the energy is below it
FlooredEnergyAlways(e, efl) == efl

\* the energy floor applied to the conserved state on entry
FlooredEnergy(e, efl) == IF Lt(e, efl) THEN efl ELSE e
\* the flag efloor_used after it
EnergyFlag(e, efl, efloor_used) == IF Lt(e, efl) THEN TRUE ELSE efloor_used

\* the floors applied to the conserved state on entry
SRFloorsAt(u, eos, efl, dfloor_used, efloor_used) ==
  [u |-> [u EXCEPT !.d = FlooredDensity(u.d, eos.dfloor),
                   !.e = FlooredEnergy(u.e, efl)],
   dfloor_used |-> DensityFlag(u.d, eos.dfloor, dfloor_used),
   efloor_used |-> EnergyFlag(u.e, efl, efloor_used)]

SRFloors(u, eos, b2, dfloor_used, efloor_used) ==
  The({SRFloorsAt(u, eos, efl, dfloor_used, efloor_used) :
         efl \in {SREnergyFloor(eos, b2)}})

\* eq. 22-24: the variables recast by the (floored) density
RecastWith(u, s2, b2, rpar, isqrtd) ==
  [q    |-> Div(u.e, u.d),
   r    |-> Div(Sqrt(s2), u.d),
   bx   |-> Mul(u.bx, isqrtd),
   by   |-> Mul(u.by, isqrtd),
   bz   |-> Mul(u.bz, isqrtd),
   b2   |-> Div(b2, u.d),
   rpar |-> Mul(rpar, isqrtd)]

Recast(u, s2, b2, rpar) ==
  The({RecastWith(u, s2, b2, rpar, isqrtd) : isqrtd \in {Div(One, Sqrt(u.d))}})

\* the master function of a phase at mu
Master(ph, mu, par, u_d, eos) ==
  IF ph = 1 THEN Equation49(mu, par.b2, par.rpar, par.r, par.q)
  ELSE Equation44(mu, par.b2, par.rpar, par.r, par.q, u_d, eos)

\* the endpoint values fm and fp have strictly opposite signs
OppositeSigns(fm, fp) ==
  \/ Lt(fm, Zero) /\ Gt(fp, Zero)
  \/ Gt(fm, Zero) /\ Lt(fp, Zero)

\* "If bracket within tolerances, don't bother doing any iterations"
WithinTolerance(zm, zp, fm, fp) ==
  Lt(Fabs(Sub(zm, zp)), tol) \/ Lt(Add(Fabs(fm), Fabs(fp)), Mul(Two, tol))

\* the solver's locals for a bracket [zm, zp] with values fm, fp
Bracket(zm, zp, fm, fp) ==
  [zm |-> zm, zp |-> zp, fm |-> fm, fp |-> fp,
   iterations |-> IF WithinTolerance(zm, zp, fm, fp) THEN -1
                  ELSE max_iterations,
   z |-> Mul(Half, Add(zm, zp)),
   iter |-> 0]

\* the solver's locals when a phase starts on the bracket [zm, zp]
StartPhase(ph, zm, zp, par, u_d, eos) ==
  The({Bracket(zm, zp, fm, fp) :
         fm \in {Master(ph, zm, par, u_d, eos)},
         fp \in {Master(ph, zp, par, u_d, eos)}})

\* linear interpolation to the point f(z) = 0
Interpolate(zm, zp, fm, fp) ==
  Div(Sub(Mul(zm, fp), Mul(zp, fm)), Sub(fp, fm))

\* "Quit if convergence reached"
Converged(zm, zp, f) == Lt(Fabs(Sub(zm, zp)), tol) \/ Lt(Fabs(f), tol)

\* the bracket after an iteration that did not converge
BracketUpdate(s, z, f) ==
  IF Lt(Mul(f, s.fp), Zero)
  THEN [s EXCEPT !.zm = s.zp, !.fm = s.fp, !.zp = z, !.fp = f, !.z = z]
  ELSE [s EXCEPT !.fm = Mul(Half, s.fm), !.zp = z, !.fp = f, !.z = z]

\* the loop condition with <= for <: one iteration more
LoopTestInclusive(iter, iterations) == iter <= iterations

\* the loop condition of both for loops
LoopTest(iter, iterations) == iter < iterations

\* the body of a for loop after the candidate z and its value f: the
\* locals after it, and whether the loop is left (by break, or by its
\* condition after ++iter)
LoopBodyAt(s, z, f) ==
  IF Converged(s.zm, s.zp, f)
  THEN [s |-> [s EXCEPT !.z = z], left |-> TRUE]
  ELSE [s |-> [BracketUpdate(s, z, f) EXCEPT !.iter = s.iter + 1],
        left |-> ~LoopTest(s.iter + 1, s.iterations)]

\* the body of a for loop after the candidate z
LoopBodyFrom(ph, s, par, u_d, eos, z) ==
  The({LoopBodyAt(s, z, f) : f \in {Master(ph, z, par, u_d, eos)}})

\* one pass through the body of a for loop
LoopBody(ph, s, par, u_d, eos) ==
  The({LoopBodyFrom(ph, s, par, u_d, eos, z) :
         z \in {Interpolate(s.zm, s.zp, s.fm, s.fp)}})

\* MaxIterUpdate with the comparison turned around
MaxIterLowered(iter, max_iter) == IF iter < max_iter THEN iter ELSE max_iter

\* max_iter = iter: the count of the last phase, not the maximum
MaxIterLast(iter, max_iter) == iter

\* max_iter = (iter > max_iter)? iter : max_iter
MaxIterUpdate(iter, max_iter) == IF iter > max_iter THEN iter ELSE max_iter

\* the velocity component of eq. (C26) from momentum m and field b
Velocity(conv, m, u_d, b, rpar, hl) ==
  Mul(conv, Add(Div(m, u_d), Div(Mul(b, rpar), hl)))

\* PostPrimitives with eps returned where the energy density wd*eps belongs
PostPrimitivesEps(u, par, wd, eps, conv, hl) ==
  [d  |-> wd,
   vx |-> Velocity(conv, u.mx, u.d, par.bx, par.rpar, hl),
   vy |-> Velocity(conv, u.my, u.d, par.by, par.rpar, hl),
   vz |-> Velocity(conv, u.mz, u.d, par.bz, par.rpar, hl),
   e  |-> eps]

\* the primitives from conv and h*lor
PostPrimitives(u, par, wd, eps, conv, hl) ==
  [d  |-> wd,
   vx |-> Velocity(conv, u.mx, u.d, par.bx, par.rpar, hl),
   vy |-> Velocity(conv, u.my, u.d, par.by, par.rpar, hl),
   vz |-> Velocity(conv, u.mz, u.d, par.bz, par.rpar, hl),
   e  |-> Mul(wd, eps)]

\* the primitives from the floored eps and the enthalpy h, with
\* conv = lor/(h*lor + b2)
PostVelocity(u, par, lor, wd, eps, h) ==
  The({PostPrimitives(u, par, wd, eps, conv, hl) :
         conv \in {Div(lor, Add(Mul(h, lor), par.b2))}, hl \in {Mul(h, lor)}})

\* the floor of eps: the value kept
PostEps(eps0, epsmin) == IF Le(eps0, epsmin) THEN epsmin ELSE eps0

\* the postprocessing from the floored eps
PostFloored(u, eos, par, lor, wd, eps0, epsmin, eps, efloor_used) ==
  [w |-> The({PostVelocity(u, par, lor, wd, eps, h) :
                h \in {Enthalpy(eos, eps)}}),
   eps |-> eps, epsmin |-> epsmin, lor |-> lor,
   efloor_used |-> IF Le(eps0, epsmin) THEN TRUE ELSE efloor_used]

\* the postprocessing from eps before the floor and its floor epsmin
PostFloor(u, eos, par, lor, wd, eps0, epsmin, efloor_used) ==
  The({PostFloored(u, eos, par, lor, wd, eps0, epsmin, eps, efloor_used) :
         eps \in {PostEps(eps0, epsmin)}})

\* the postprocessing from the rest density wd = u.d/lor
PostDensity(u, eos, par, mu, rbar, qbar, z2, lor, wd, efloor_used) ==
  The({PostFloor(u, eos, par, lor, wd, eps0, epsmin, efloor_used) :
         eps0 \in {EpsOf(lor, mu, rbar, qbar, z2)},
         epsmin \in {EpsMin(eos, wd)}})

\* the postprocessing from the Lorentz factor lor
PostLorentz(u, eos, par, mu, rbar, qbar, z2, lor, efloor_used) ==
  The({PostDensity(u, eos, par, mu, rbar, qbar, z2, lor, wd, efloor_used) :
         wd \in {Div(u.d, lor)}})

\* the postprocessing from z2
PostZ2(u, eos, par, mu, rbar, qbar, z2, efloor_used) ==
  The({PostLorentz(u, eos, par, mu, rbar, qbar, z2, lor, efloor_used) :
         lor \in {Sqrt(Add(One, z2))}})

\* the postprocessing from rbar
PostRbar(u, eos, par, mu, rbar, efloor_used) ==
  The({PostZ2(u, eos, par, mu, rbar, qbar, z2, efloor_used) :
         qbar \in {Qbar(mu, par.b2, par.rpar, rbar, par.q)},
         z2 \in {Z2(mu, rbar)}})

\* "iterations ended, compute primitives from resulting value of z"
PostProcess(u, eos, par, mu, efloor_used) ==
  The({PostRbar(u, eos, par, mu, rbar, efloor_used) :
         rbar \in {RbarAt(mu, par.b2, par.r, par.rpar)}})

\* the scalars the caller of SingleC2P_IdealSRMHD passes with the state
CallerS2(u) == Add(Add(SQR(u.mx), SQR(u.my)), SQR(u.mz))
CallerB2(u) == Add(Add(SQR(u.bx), SQR(u.by)), SQR(u.bz))
CallerRpar(u) ==
  Div(Add(Add(Mul(u.bx, u.mx), Mul(u.by, u.my)), Mul(u.bz, u.mz)), u.d)

\* the call up to the first for loop, from the floored state fl
SRRecast(fl, eos, pr) ==
  [u |-> fl.u, dfloor_used |-> fl.dfloor_used, efloor_used |-> fl.efloor_used,
   par |-> pr, s |-> StartPhase(1, Zero, One, pr, fl.u.d, eos)]

SRFloored(fl, eos, s2, b2, rpar) ==
  The({SRRecast(fl, eos, pr) : pr \in {Recast(fl.u, s2, b2, rpar)}})

\* the call up to the first for loop
SREnter(u, eos, s2, b2, rpar, dfloor_used, efloor_used) ==
  The({SRFloored(fl, eos, s2, b2, rpar) :
         fl \in {SRFloors(u, eos, b2, dfloor_used, efloor_used)}})

\* the call up to the first for loop, with the scalars of the caller
SREntry(u0, eos, dfloor_used, efloor_used) ==
  The({SREnter(u0, eos, s2, b2, rpar, dfloor_used, efloor_used) :
         s2 \in {CallerS2(u0)}, b2 \in {CallerB2(u0)},
         rpar \in {CallerRpar(u0)}})

(***************************************************************************)
(* The state machine: a caller converts the cells of `cells` one call at   *)
(* a time, in any order, accumulating the two floor flags and max_iter     *)
(* over the calls.  A call of SingleC2P_IdealSRMHD is followed through its *)
(* two solver loops, one iteration per step.                               *)
(***************************************************************************)
\* cells of one run of the multi-cell specification
MaxCells == 2

VARIABLES
  pc,           \* "idle", "loop1", "after1", "loop2", "after2", "ret", "rt",
                \* "rtsr"
  eos,          \* [gamma, dfloor, pfloor]
  cells,        \* the cells: a sequence of [rel, u]
  todo,         \* indices of the cells not yet converted
  cur,          \* index of the cell of the current call (0: none)
  u,            \* the conserved state the call works on (by reference)
  w,            \* the primitive state the call returns
  dfloor_used, efloor_used, max_iter,   \* the caller's accumulators
  par,          \* the recast variables of the relativistic call
  s,            \* the locals of the solver loops
  uc,           \* the conserved state recomputed from w
  ent,          \* the accumulators as they were when the call was entered
  it,           \* the iteration counts of the phases of the current call
  post,         \* eps, epsmin, lor of the postprocessing of the current call
  own,          \* the flags the current call leaves when it is given FALSE
  opp0,         \* the phase in progress started with fm and fp of strictly
                \* opposite signs
  log,          \* per converted cell: its own flags and iteration counts,
                \* the max_iter it was given, and the u and w it left
  rk,           \* WriteOutputFile, per MPI rank: where it is (pc), its loop
                \* variable r, the data lines it has printed, the lines in
                \* the buffer of its pfile, the barriers it has left
  file,         \* the output file: whether it exists, and its lines
  nlines        \* per MPI rank: the data lines it has to write

\* the variables of the converters
cvars == <<pc, eos, cells, todo, cur, u, w, dfloor_used, efloor_used, max_iter,
           par, s, uc, ent, it, post, own, opp0, log>>

\* the variables of WriteOutputFile
tvars == <<rk, file, nlines>>

vars == <<cvars, tvars>>

Cons(d, m, e, b) ==
  [d |-> d, mx |-> m[1], my |-> m[2], mz |-> m[3], e |-> e,
   bx |-> b[1], by |-> b[2], bz |-> b[3]]

NoCons == Cons(Zero, <<Zero, Zero, Zero>>, Zero, <<Zero, Zero, Zero>>)
NoPrim == [d |-> Zero, vx |-> Zero, vy |-> Zero, vz |-> Zero, e |-> Zero]
NoHydCons == [d |-> Zero, mx |-> Zero, my |-> Zero, mz |-> Zero, e |-> Zero]
NoPar == [q |-> Zero, r |-> Zero, bx |-> Zero, by |-> Zero, bz |-> Zero,
          b2 |-> Zero, rpar |-> Zero]
NoSolver == [zm |-> Zero, zp |-> Zero, fm |-> Zero, fp |-> Zero, z |-> Zero,
             iter |-> 0, iterations |-> 0]
NoPost == [eps |-> Zero, epsmin |-> Zero, lor |-> Zero]
NoFlags == [dfloor_used |-> FALSE, efloor_used |-> FALSE]
NoLog == [dfloor_used |-> FALSE, efloor_used |-> FALSE, it1 |-> 0, it2 |-> 0,
          max_iter0 |-> 0, u |-> NoCons, w |-> NoPrim]

\* EOS parameter sets: gamma > 1, dfloor > 0, pfloor >= 0
EOSSet ==
  { [gamma |-> Rat(5, 3), dfloor |-> Div(One, FromInt(100000000)),
     pfloor |-> Div(Rat(1, 100), FromInt(100000000))],
    [gamma |-> Rat(5, 3), dfloor |-> Rat(1, 4), pfloor |-> Rat(1, 8)] }

Vec(a, b, c) == <<FromInt(a), FromInt(b), FromInt(c)>>

DVals(p) == {FromInt(-1), p.dfloor, One, Two}
MomVecs == {Vec(0, 0, 0), Vec(1, 0, 0), Vec(0, 1, -1), Vec(3, 0, 4)}
EVals(p) == {Zero, Div(p.pfloor, gm1Of(p)), One, FromInt(3), FromInt(8)}
BVecs == {Vec(0, 0, 0), Vec(1, 0, 0), Vec(0, -1, 1)}

Inputs(p) ==
  { [rel |-> rl, u |-> Cons(d, m, e, b)] :
      rl \in BOOLEAN, d \in DVals(p), m \in MomVecs, e \in EVals(p), b \in BVecs }

\* the cells the multi-cell specification draws from
FewInputs(p) ==
  { [rel |-> TRUE,  u |-> Cons(One, Vec(0, 0, 0), FromInt(3), Vec(0, 0, 0))],
    [rel |-> TRUE,  u |-> Cons(One, Vec(1, 0, 0), FromInt(3), Vec(1, 0, 0))],
    [rel |-> TRUE,  u |-> Cons(FromInt(-1), Vec(0, 1, -1), Zero, Vec(0, -1, 1))],
    [rel |-> FALSE, u |-> Cons(One, Vec(1, 0, 0), FromInt(3), Vec(0, 0, 0))],
    [rel |-> FALSE, u |-> Cons(FromInt(-1), Vec(0, 0, 0), Zero, Vec(0, 0, 0))] }

\* the value next above 1
NextAboveOne == [k |-> "F", m |-> Pow2(Prec - 1) + 1, e |-> 1 - Prec]

\* cells with densities that are not powers of two and energies at or just
\* above the energy floor
OddDVals == {FromInt(3), FromInt(7), FromInt(10), FromInt(49)}
OddEVals(p, d) ==
  {One, FromInt(7), Div(p.pfloor, gm1Of(p)),
   Mul(Div(p.pfloor, gm1Of(p)), NextAboveOne),
   Mul(Mul(d, EpsMin(p, d)), NextAboveOne)}

OddInputs(p) ==
  { [rel |-> rl, u |-> Cons(d, m, e, b)] :
      rl \in BOOLEAN, d \in OddDVals,
      m \in {Vec(0, 0, 0), Vec(1, 0, 0), Vec(3, 0, 4)},
      e \in UNION {OddEVals(p, dd) : dd \in OddDVals},
      b \in {Vec(0, 0, 0), Vec(0, -1, 1)} }

\* relativistic cells with a large momentum, 2^20, and an energy of the
\* same size
LargeInputs ==
  { [rel |-> TRUE, u |-> Cons(One, <<m, Zero, Zero>>, e, Vec(0, 0, 0))] :
      m \in {FromInt(Pow2(20))}, e \in {FromInt(Pow2(20)), FromInt(Pow2(21))} }

\* global_variable::nranks: the number of MPI ranks
nranks == 3

\* the most data lines a rank has to write
MaxLines == 2

\* global_variable::my_rank of the ranks
Ranks == 0..(nranks - 1)

\* a line of the file is the rank that wrote it; the header is this line
HeaderLine == -1

NoRank == [pc |-> "idle", r |-> 0, printed |-> 0, buf |-> 0, bars |-> 0]
NoFile == [exists |-> FALSE, data |-> <<>>]

\* no output is being written
NoTable ==
  /\ rk = [p \in Ranks |-> NoRank]
  /\ file = NoFile
  /\ nlines = [p \in Ranks |-> 0]

InitCommon ==
  /\ pc = "idle"
  /\ todo = 1..Len(cells)
  /\ cur = 0
  /\ u = NoCons
  /\ w = NoPrim
  /\ dfloor_used = FALSE
  /\ efloor_used = FALSE
  /\ max_iter = 0
  /\ par = NoPar
  /\ s = NoSolver
  /\ uc = NoHydCons
  /\ ent = [dfloor_used |-> FALSE, efloor_used |-> FALSE, max_iter |-> 0]
  /\ it = <<0, 0>>
  /\ post = NoPost
  /\ own = NoFlags
  /\ log = [c \in 1..Len(cells) |-> NoLog]
  /\ opp0 = FALSE

\* the cells of a run: one cell with any input, or up to MaxCells cells
CellArrays(p) ==
  {<<c>> : c \in Inputs(p) \cup OddInputs(p) \cup LargeInputs}
    \cup UNION {[1..n -> FewInputs(p)] : n \in 2..MaxCells}

Init ==
  /\ eos \in EOSSet
  /\ cells \in CellArrays(eos)
  /\ InitCommon
  /\ NoTable

\* the non-relativistic call, as a whole
CallMHD(c) ==
  /\ pc = "idle"
  /\ c \in todo
  /\ ~cells[c].rel
  /\ \E r \in {SingleC2P_IdealMHD(cells[c].u, eos, dfloor_used, efloor_used)} :
       /\ u' = r.u
       /\ w' = r.w
       /\ dfloor_used' = r.dfloor_used
       /\ efloor_used' = r.efloor_used
  /\ cur' = c
  /\ ent' = [dfloor_used |-> dfloor_used, efloor_used |-> efloor_used,
             max_iter |-> max_iter]
  /\ \E r \in {SingleC2P_IdealMHD(cells[c].u, eos, FALSE, FALSE)} :
       own' = [dfloor_used |-> r.dfloor_used, efloor_used |-> r.efloor_used]
  /\ pc' = "ret"
  /\ it' = <<0, 0>>
  /\ post' = NoPost
  /\ par' = NoPar
  /\ s' = NoSolver
  /\ opp0' = FALSE
  /\ UNCHANGED <<eos, cells, todo, max_iter, uc, log>>
  /\ UNCHANGED tvars

\* entry of the relativistic call: floors, recast, bracket of phase 1
CallSR(c) ==
  /\ pc = "idle"
  /\ c \in todo
  /\ cells[c].rel
  /\ \E r \in {SREntry(cells[c].u, eos, dfloor_used, efloor_used)} :
       /\ u' = r.u
       /\ dfloor_used' = r.dfloor_used
       /\ efloor_used' = r.efloor_used
       /\ par' = r.par
       /\ s' = r.s
       /\ opp0' = OppositeSigns(r.s.fm, r.s.fp)
       /\ pc' = IF LoopTest(r.s.iter, r.s.iterations) THEN "loop1" ELSE "after1"
  /\ cur' = c
  /\ ent' = [dfloor_used |-> dfloor_used, efloor_used |-> efloor_used,
             max_iter |-> max_iter]
  /\ \E r \in {SRFloors(cells[c].u, eos, CallerB2(cells[c].u), FALSE, FALSE)} :
       own' = [dfloor_used |-> r.dfloor_used, efloor_used |-> r.efloor_used]
  /\ w' = NoPrim
  /\ it' = <<0, 0>>
  /\ post' = NoPost
  /\ UNCHANGED <<eos, cells, todo, max_iter, uc, log>>
  /\ UNCHANGED tvars

\* one iteration of the loop of phase ph
Iterate(ph) ==
  /\ pc = (IF ph = 1 THEN "loop1" ELSE "loop2")
  /\ \E b \in {LoopBody(ph, s, par, u.d, eos)} :
       /\ s' = b.s
       /\ pc' = IF b.left THEN (IF ph = 1 THEN "after1" ELSE "after2")
                ELSE pc
  /\ UNCHANGED <<eos, cells, todo, cur, u, w, dfloor_used, efloor_used,
                 max_iter, par, uc, ent, it, post, own, log, opp0>>
  /\ UNCHANGED tvars

\* after the loop of phase 1: max_iter, and the bracket of phase 2
StartPhase2 ==
  /\ pc = "after1"
  /\ max_iter' = MaxIterUpdate(s.iter, max_iter)
  /\ it' = <<s.iter, 0>>
  /\ \E s0 \in {StartPhase(2, Zero, s.z, par, u.d, eos)} :
       /\ s' = s0
       /\ opp0' = OppositeSigns(s0.fm, s0.fp)
       /\ pc' = IF LoopTest(s0.iter, s0.iterations) THEN "loop2" ELSE "after2"
  /\ UNCHANGED <<eos, cells, todo, cur, u, w, dfloor_used, efloor_used, par,
                 uc, ent, post, own, log>>
  /\ UNCHANGED tvars

\* after the loop of phase 2: max_iter, and the primitives from z
Finish ==
  /\ pc = "after2"
  /\ max_iter' = MaxIterUpdate(s.iter, max_iter)
  /\ it' = <<it[1], s.iter>>
  /\ \E pp \in {PostProcess(u, eos, par, s.z, efloor_used)} :
       /\ w' = pp.w
       /\ efloor_used' = pp.efloor_used
       /\ post' = [eps |-> pp.eps, epsmin |-> pp.epsmin, lor |-> pp.lor]
  /\ own' = [own EXCEPT !.efloor_used =
                PostProcess(u, eos, par, s.z, own.efloor_used).efloor_used]
  /\ pc' = "ret"
  /\ UNCHANGED <<eos, cells, todo, cur, u, dfloor_used, par, s, uc, ent, log,
                 opp0>>
  /\ UNCHANGED tvars

\* the caller turns the primitive state of a non-relativistic call back
\* into a conserved state, with the magnetic field of the cell
RoundTrip ==
  /\ pc = "ret"
  /\ ~cells[cur].rel
  /\ uc' = SingleP2C_IdealMHD([d |-> w.d, vx |-> w.vx, vy |-> w.vy, vz |-> w.vz,
                                e |-> w.e, bx |-> u.bx, by |-> u.by, bz |-> u.bz])
  /\ pc' = "rt"
  /\ UNCHANGED <<eos, cells, todo, cur, u, w, dfloor_used, efloor_used,
                 max_iter, par, s, ent, it, post, own, log, opp0>>
  /\ UNCHANGED tvars

\* the caller turns the primitive state of a relativistic call back into a
\* conserved state, with the magnetic field of the cell
RoundTripSR ==
  /\ pc = "ret"
  /\ cells[cur].rel
  /\ uc' = SingleP2C_IdealSRMHD([d |-> w.d, vx |-> w.vx, vy |-> w.vy,
                                  vz |-> w.vz, e |-> w.e,
                                  bx |-> u.bx, by |-> u.by, bz |-> u.bz],
                                 eos.gamma)
  /\ pc' = "rtsr"
  /\ UNCHANGED <<eos, cells, todo, cur, u, w, dfloor_used, efloor_used,
                 max_iter, par, s, ent, it, post, own, log, opp0>>
  /\ UNCHANGED tvars

\* the call is over: the caller goes on to another cell
Return ==
  /\ pc \in {"ret", "rt", "rtsr"}
  /\ todo' = todo \ {cur}
  /\ log' = [log EXCEPT ![cur] =
                [dfloor_used |-> own.dfloor_used,
                 efloor_used |-> own.efloor_used,
                 it1 |-> it[1], it2 |-> it[2],
                 max_iter0 |-> ent.max_iter, u |-> u, w |-> w]]
  /\ pc' = "idle"
  /\ UNCHANGED <<eos, cells, cur, u, w, dfloor_used, efloor_used, max_iter,
                 par, s, uc, ent, it, post, own, opp0>>
  /\ UNCHANGED tvars

Next ==
  \/ \E c \in todo : CallMHD(c)
  \/ \E c \in todo : CallSR(c)
  \/ Iterate(1)
  \/ Iterate(2)
  \/ StartPhase2
  \/ Finish
  \/ RoundTrip
  \/ RoundTripSR
  \/ Return

Spec == Init /\ [][Next]_vars

\* the cells of the runs under fairness: one cell, relativistic with a
\* field along x or none, or one of FewInputs
LiveInputs(p) ==
  FewInputs(p) \cup {c \in Inputs(p) : c.rel /\ c.u.by = Zero}

LiveInit ==
  /\ eos \in EOSSet
  /\ cells \in {<<c>> : c \in LiveInputs(eos)}
  /\ InitCommon
  /\ NoTable

\* a call that has started runs on: every step of the code is taken
FairSpec == LiveInit /\ [][Next]_vars /\ WF_vars(Next)

(***************************************************************************)
(* FormattedTableOutput::WriteOutputFile, run by every MPI rank            *)
(***************************************************************************)
\* n lines written by rank p
Copies(n, p) == [i \in 1..n |-> p]

\* the file after the buffer of a pfile has been written to it
Written(f, n, p) == [f EXCEPT !.data = f.data \o Copies(n, p)]

\* rank q has entered its barrier number n
Arrived(q, n) ==
  \/ rk[q].bars > n
  \/ rk[q].bars = n /\ rk[q].pc \in {"bar0", "bar"}

\* a barrier that holds no rank back
BarrierOpenAlways(p) == TRUE

\* MPI_Barrier(MPI_COMM_WORLD) lets rank p go on: every rank has entered
\* the barrier rank p waits in
BarrierOpen(p) == \A q \in Ranks : Arrived(q, rk[p].bars)

\* the data lines of the ranks: some ranks have no data, the others have the
\* same number of lines, up to MaxLines
LineCounts ==
  {[p \in Ranks |-> IF p \in S THEN n ELSE 0] :
     S \in SUBSET Ranks, n \in 1..MaxLines}

\* where a rank goes on after ++r, or after r = 0: the test r < nranks of
\* the loop
ForRank(r) == IF r < nranks THEN "body" ELSE "close"

\* the output of a run of nranks ranks starts: each rank has its data lines
TableInit ==
  /\ eos = CHOOSE p \in EOSSet : TRUE
  /\ cells = <<>>
  /\ InitCommon
  /\ rk = [p \in Ranks |-> [NoRank EXCEPT !.pc = "start"]]
  /\ file = NoFile
  /\ nlines \in LineCounts

\* "master rank creates file": fopen(fname, "w"), or exit(EXIT_FAILURE)
\* when it returns nullptr; the other ranks go on to the barrier
FopenWrite(p) ==
  /\ rk[p].pc = "start"
  /\ IF p = 0
     THEN \E ok \in BOOLEAN :
            IF ok
            THEN /\ file' = [exists |-> TRUE, data |-> <<>>]
                 /\ rk' = [rk EXCEPT ![p].pc = "header"]
            ELSE /\ rk' = [rk EXCEPT ![p].pc = "exited"]
                 /\ UNCHANGED file
     ELSE /\ rk' = [rk EXCEPT ![p].pc = "bar0"]
          /\ UNCHANGED file
  /\ UNCHANGED <<nlines, cvars>>

\* "print file header": the fprintf calls of the header, into the buffer
PrintHeader(p) ==
  /\ rk[p].pc = "header"
  /\ rk' = [rk EXCEPT ![p].buf = 1, ![p].pc = "closeh"]
  /\ UNCHANGED <<file, nlines, cvars>>

\* fclose(pfile) of the header: the buffer is written to the file
FcloseHeader(p) ==
  /\ rk[p].pc = "closeh"
  /\ file' = Written(file, rk[p].buf, HeaderLine)
  /\ rk' = [rk EXCEPT ![p].buf = 0, ![p].pc = "bar0"]
  /\ UNCHANGED <<nlines, cvars>>

\* rank p leaves MPI_Barrier: the one before the data, or the one that ends
\* a pass of the loop over r (then ++r and the test of the loop)
MPI_Barrier(p) ==
  /\ rk[p].pc \in {"bar0", "bar"}
  /\ BarrierOpen(p)
  /\ rk' = [rk EXCEPT ![p].bars = @ + 1,
                      ![p].r = IF rk[p].pc = "bar" THEN @ + 1 ELSE @,
                      ![p].pc = IF rk[p].pc = "bar" THEN ForRank(rk[p].r + 1)
                                ELSE "open"]
  /\ UNCHANGED <<file, nlines, cvars>>

\* "now all ranks open file and append data": fopen(fname, "a"), or
\* exit(EXIT_FAILURE) when it returns nullptr; then r = 0 and the test of the
\* loop
FopenAppend(p) ==
  /\ rk[p].pc = "open"
  /\ \E ok \in BOOLEAN :
       rk' = [rk EXCEPT ![p].pc = IF ok THEN ForRank(0) ELSE "exited",
                        ![p].r = 0]
  /\ UNCHANGED <<file, nlines, cvars>>

\* if (r == my_rank): the fprintf calls of one data line, into the buffer
PrintLine(p) ==
  /\ rk[p].pc = "body"
  /\ rk[p].r = p
  /\ rk[p].printed < nlines[p]
  /\ rk' = [rk EXCEPT ![p].printed = @ + 1, ![p].buf = @ + 1]
  /\ UNCHANGED <<file, nlines, cvars>>

\* an fprintf finds the buffer full: the buffered lines are written
Spill(p) ==
  /\ rk[p].pc = "body"
  /\ rk[p].buf > 0
  /\ file' = Written(file, rk[p].buf, p)
  /\ rk' = [rk EXCEPT ![p].buf = 0]
  /\ UNCHANGED <<nlines, cvars>>

\* fflush(pfile), by every rank in every pass, after the data of the rank
\* whose pass it is
Fflush(p) ==
  /\ rk[p].pc = "body"
  /\ rk[p].r = p => rk[p].printed = nlines[p]
  /\ file' = Written(file, rk[p].buf, p)
  /\ rk' = [rk EXCEPT ![p].buf = 0, ![p].pc = "bar"]
  /\ UNCHANGED <<nlines, cvars>>

\* fclose(pfile) after the loop: the call returns
Fclose(p) ==
  /\ rk[p].pc = "close"
  /\ file' = Written(file, rk[p].buf, p)
  /\ rk' = [rk EXCEPT ![p].buf = 0, ![p].pc = "done"]
  /\ UNCHANGED <<nlines, cvars>>

\* a step of rank p
RankStep(p) ==
  \/ FopenWrite(p)
  \/ PrintHeader(p)
  \/ FcloseHeader(p)
  \/ MPI_Barrier(p)
  \/ FopenAppend(p)
  \/ PrintLine(p)
  \/ Spill(p)
  \/ Fflush(p)
  \/ Fclose(p)

TableNext == \E p \in Ranks : RankStep(p)

\* the ranks run on: while a rank can take a step, a step is taken
TableSpec == TableInit /\ [][TableNext]_vars /\ WF_vars(TableNext)

(***************************************************************************)
(* Properties.                                                             *)
(***************************************************************************)
\* a call has returned and the caller has not yet gone on
Returned == pc = "ret"
\* the conserved state the current call was given
Given == cells[cur].u
\* the current call is a call of SingleC2P_IdealSRMHD
Relativistic == cells[cur].rel

\* C1 as stated: after either conversion both the conserved density u.d
\* and the primitive density w.d are at least dfloor.
C1_Stated ==
  Returned => Ge(u.d, eos.dfloor) /\ Ge(w.d, eos.dfloor)

\* C1 amended: after either conversion the conserved density u.d is at
\* least dfloor; SingleC2P_IdealMHD returns w.d = u.d, while
\* SingleC2P_IdealSRMHD returns w.d = u.d / lor with the Lorentz factor lor
\* of the postprocessing, which no floor bounds from below.
C1_Density ==
  Returned =>
    /\ Ge(u.d, eos.dfloor)
    /\ ~Relativistic => w.d = u.d
    /\ Relativistic => w.d = Div(u.d, post.lor)

\* a relativistic call whose density was floored has returned a finite
\* primitive density below dfloor
C1_Witness ==
  /\ Returned /\ Relativistic
  /\ Lt(Given.d, eos.dfloor) /\ u.d = eos.dfloor
  /\ IsFinite(w.d) /\ Lt(w.d, eos.dfloor)

\* C2 as stated: whenever the call has raised the energy-floor flag, the
\* conserved energy u.e it leaves is exactly the returned internal energy
\* plus the kinetic energy plus the magnetic energy.
C2_Stated ==
  (Returned /\ own.efloor_used) =>
    u.e = Add(Add(w.e, KineticEnergy(Div(One, u.d), u)), MagneticEnergy(u))

\* C3 as stated: after either conversion the returned internal energy w.e
\* is at least pfloor/(gamma-1).
C3_Stated ==
  Returned => Ge(w.e, Div(eos.pfloor, gm1Of(eos)))

\* the input of the current call satisfies the density floor and the
\* combined energy floor
Admissible ==
  /\ Ge(Given.d, eos.dfloor)
  /\ Ge(Given.e, SREnergyFloor(eos, CallerB2(Given)))

\* 0 <= x <= 1
InUnit(x) == Ge(x, Zero) /\ Le(x, One)

\* the relativistic call is in its solver or has just returned
InSolver ==
  pc \in {"loop1", "after1", "loop2", "after2"} \/ (Returned /\ Relativistic)

\* C10 as stated: for an admissible input the bracket endpoints zm and zp
\* and the candidate z of both phases, and the mu of the postprocessing,
\* lie in [0, 1] in every state of the solver.
C10_Stated ==
  (InSolver /\ Admissible) => InUnit(s.zm) /\ InUnit(s.zp) /\ InUnit(s.z)

\* the relativistic call is inside its solver
Solving == pc \in {"loop1", "after1", "loop2", "after2"}

\* C4: each of the two phases of SingleC2P_IdealSRMHD counts at most 25
\* iterations, whatever the input, and a call that has entered the solver
\* always goes on to the postprocessing and returns.
C4_Terminates ==
  /\ [](/\ s.iter \in 0..max_iterations
        /\ it[1] \in 0..max_iterations
        /\ it[2] \in 0..max_iterations)
  /\ (Solving ~> Returned)

\* a call has returned after a phase that used all 25 iterations, so that
\* no tolerance test was met in it
C4_Witness ==
  Returned /\ Relativistic /\ (it[1] = max_iterations \/ it[2] = max_iterations)

\* the largest element of a finite set of integers
MaxOf(S) == CHOOSE x \in S : \A y \in S : y <= x

\* every cell has been converted
Done == pc = "idle" /\ todo = {}

\* C6: when all cells have been converted, in whatever order, each flag is
\* the OR of the flags the cells raise by themselves and max_iter is the
\* maximum of the iteration counts of all cells and phases.
C6_Accumulated ==
  Done =>
    /\ dfloor_used = (\E c \in DOMAIN log : log[c].dfloor_used)
    /\ efloor_used = (\E c \in DOMAIN log : log[c].efloor_used)
    /\ max_iter = MaxOf({0} \cup {log[c].it1 : c \in DOMAIN log}
                             \cup {log[c].it2 : c \in DOMAIN log})

\* two cells have been converted that differ in both flags and of which
\* the one with the larger iteration count was not converted last
C6_Witness ==
  /\ Done
  /\ \E c \in DOMAIN log :
        /\ c # cur
        /\ log[c].dfloor_used # log[cur].dfloor_used
        /\ log[c].efloor_used # log[cur].efloor_used
        /\ log[c].it2 > log[cur].it2 /\ log[c].it2 > log[cur].it1

\* C9 as stated: for an input density below dfloor the call raises the
\* density-floor flag and the density it returns is exactly dfloor; for an
\* input density of at least dfloor it does not raise the flag.
C9_Stated ==
  Returned =>
    /\ Lt(Given.d, eos.dfloor) => dfloor_used /\ w.d = eos.dfloor
    /\ Ge(Given.d, eos.dfloor) => dfloor_used = ent.dfloor_used

\* C9 amended: for an input density below dfloor the call raises the
\* density-floor flag and leaves the conserved density u.d exactly dfloor,
\* and SingleC2P_IdealMHD also returns w.d = dfloor (SingleC2P_IdealSRMHD
\* returns u.d / lor); for an input density of at least dfloor the flag
\* and the density are left as they were.
C9_SubFloor ==
  Returned =>
    /\ Lt(Given.d, eos.dfloor) =>
          /\ dfloor_used /\ own.dfloor_used
          /\ u.d = eos.dfloor
          /\ ~Relativistic => w.d = eos.dfloor
    /\ Ge(Given.d, eos.dfloor) =>
          /\ dfloor_used = ent.dfloor_used /\ ~own.dfloor_used
          /\ u.d = Given.d

\* a call given a negative density has raised the flag, which was not
\* raised before
C9_Witness ==
  /\ Returned /\ Lt(Given.d, Zero)
  /\ ~ent.dfloor_used /\ dfloor_used /\ u.d = eos.dfloor

\* the caller has recomputed the conserved state of a non-relativistic call
RoundTripped == pc = "rt"

\* the input of the current call triggers no floor of SingleC2P_IdealMHD
NoFloorMHD ==
  /\ Ge(Given.d, eos.dfloor)
  /\ Ge(Sub(Sub(Given.e, KineticEnergy(Div(One, Given.d), Given)),
            MagneticEnergy(Given)),
        Div(eos.pfloor, gm1Of(eos)))

\* C5 as stated: for an input that triggers no floor, SingleC2P_IdealMHD
\* followed by SingleP2C_IdealMHD returns density, momenta and energy
\* equal to those of the input, and no flag is raised.
C5_Stated ==
  (RoundTripped /\ NoFloorMHD) =>
    /\ uc.d = Given.d
    /\ uc.mx = Given.mx /\ uc.my = Given.my /\ uc.mz = Given.mz
    /\ uc.e = Given.e
    /\ ~own.dfloor_used /\ ~own.efloor_used

\* the relative error 2^(5-Prec), 16 spacings of Real at 1
RoundTripTol == [k |-> "F", m |-> Pow2(Prec - 1), e |-> 6 - 2 * Prec]

\* a agrees with b to within the relative error RoundTripTol
Close(a, b) == Le(Fabs(Sub(a, b)), Mul(RoundTripTol, Fabs(b)))

\* C5 amended: for an input that triggers no floor, SingleC2P_IdealMHD
\* leaves the conserved state and the flags as they were, and
\* SingleP2C_IdealMHD returns the density exactly and each momentum and the
\* energy to within rounding (a relative error of at most 2^(5-Prec)).
C5_RoundTrip ==
  (RoundTripped /\ NoFloorMHD) =>
    /\ uc.d = Given.d
    /\ Close(uc.mx, Given.mx) /\ Close(uc.my, Given.my)
    /\ Close(uc.mz, Given.mz)
    /\ Close(uc.e, Given.e)
    /\ u = Given
    /\ ~own.dfloor_used /\ ~own.efloor_used
    /\ dfloor_used = ent.dfloor_used /\ efloor_used = ent.efloor_used

\* a round trip without floors has returned a momentum or an energy that
\* is not the one given, with a magnetic field in the energy
C5_Witness ==
  /\ RoundTripped /\ NoFloorMHD
  /\ Given.by # Zero
  /\ uc.mx # Given.mx \/ uc.e # Given.e

\* phase 1 is at its initial bracket: no iteration has been counted
Phase1Start == pc \in {"loop1", "after1"} /\ s.iter = 0

\* C7 as stated: for an admissible input, Equation49 at mu = 0 and at
\* mu = 1 has strictly opposite signs, or the initial early-exit test holds
\* and phase 1 runs no iteration.
C7_Stated ==
  (Phase1Start /\ Admissible) =>
    \/ Lt(s.fm, Zero) /\ Gt(s.fp, Zero)
    \/ s.iterations = -1

\* C7 amended: for every input the initial bracket of phase 1 is [0, 1]
\* with Equation49 equal to -1 at mu = 0 and not negative at mu = 1; the
\* initial early-exit test never holds, so the loop is entered; when
\* Equation49 is 0 at mu = 1 (as for zero momentum) the first candidate is
\* z = 1, where the loop breaks with no iteration counted.
C7_Bracket ==
  /\ pc \in {"loop1", "after1"} => s.iterations = max_iterations
  /\ Phase1Start =>
       /\ s.zm = Zero /\ s.zp = One
       /\ s.fm = Neg(One) /\ Ge(s.fp, Zero)
       /\ (pc = "after1" /\ s.fp = Zero) => s.z = One
       /\ (pc = "loop1" /\ s.fp = Zero) =>
             Interpolate(s.zm, s.zp, s.fm, s.fp) = One

\* phase 1 has ended at z = 1 without a counted iteration, for an
\* admissible input with Equation49 equal to 0 at mu = 1
C7_Witness ==
  /\ pc = "after1" /\ s.iter = 0 /\ Admissible
  /\ s.fp = Zero /\ s.z = One

\* the input of the current call is a static fluid: no momentum, no field
Static ==
  /\ Given.mx = Zero /\ Given.my = Zero /\ Given.mz = Zero
  /\ Given.bx = Zero /\ Given.by = Zero /\ Given.bz = Zero

\* the input of the current call is a static fluid with a density of at
\* least dfloor and an energy above pfloor/(gamma-1)
StaticAboveFloors ==
  /\ Static
  /\ Ge(Given.d, eos.dfloor)
  /\ Gt(Given.e, Div(eos.pfloor, gm1Of(eos)))

\* C8 as stated: for a static fluid above the floors SingleC2P_IdealSRMHD
\* returns zero velocity, the conserved density and the conserved energy,
\* and raises no flag.
C8_Stated ==
  (Returned /\ Relativistic /\ StaticAboveFloors) =>
    /\ w.vx = Zero /\ w.vy = Zero /\ w.vz = Zero
    /\ w.d = Given.d
    /\ w.e = Given.e
    /\ ~own.dfloor_used /\ ~own.efloor_used

\* C8 amended: for a static fluid above the floors SingleC2P_IdealSRMHD
\* counts no iteration, leaves the conserved state and the density flag as
\* they were and returns zero velocity and w.d = d exactly; with
\* eps = e/d and epsmin = pfloor/(d*(gamma-1)) as computed, it returns
\* w.e = d*eps, which is e for d = 1 and e up to rounding otherwise, and
\* raises no energy flag, unless eps <= epsmin (e within rounding of the
\* floor), when it returns w.e = d*epsmin and raises the energy flag.
C8_Static ==
  (Returned /\ Relativistic /\ StaticAboveFloors) =>
    /\ it = <<0, 0>>
    /\ u = Given /\ ~own.dfloor_used
    /\ w.vx = Zero /\ w.vy = Zero /\ w.vz = Zero
    /\ w.d = Given.d
    /\ own.efloor_used = Le(Div(Given.e, Given.d), EpsMin(eos, Given.d))
    /\ ~own.efloor_used => w.e = Mul(Given.d, Div(Given.e, Given.d))
    /\ own.efloor_used => w.e = Mul(Given.d, EpsMin(eos, Given.d))
    /\ (~own.efloor_used /\ Given.d = One) => w.e = Given.e

\* a static fluid above the floors has been converted without a flag and
\* the energy returned is not the energy given
C8_Witness ==
  /\ Returned /\ Relativistic /\ StaticAboveFloors
  /\ ~own.efloor_used /\ w.e # Given.e
  /\ w.d = Given.d /\ w.vx = Zero

\* a static fluid above the floors has been converted and the energy flag
\* is raised
C8_WitnessFlag ==
  /\ Returned /\ Relativistic /\ StaticAboveFloors
  /\ own.efloor_used

\* C11: when SingleC2P_IdealSRMHD returns, max_iter is the maximum of the
\* value it was given and the iteration counts of phase 1 and phase 2, each
\* between 0 and 25; during the call max_iter is never below the value
\* given; and two calls on the same input and EOS that were given different
\* values of max_iter leave the same primitive state, the same conserved
\* state and the same flags.
C11_MaxIter ==
  /\ max_iter >= ent.max_iter
  /\ (Returned /\ Relativistic) =>
       /\ it[1] \in 0..max_iterations /\ it[2] \in 0..max_iterations
       /\ max_iter = MaxOf({ent.max_iter, it[1], it[2]})
  /\ Done =>
       \A c1, c2 \in DOMAIN log :
         (cells[c1] = cells[c2]) =>
           /\ log[c1].w = log[c2].w /\ log[c1].u = log[c2].u
           /\ log[c1].dfloor_used = log[c2].dfloor_used
           /\ log[c1].efloor_used = log[c2].efloor_used
           /\ log[c1].it1 = log[c2].it1 /\ log[c1].it2 = log[c2].it2

\* the same relativistic input has been converted twice, given different
\* values of max_iter, and the second call did not change max_iter
C11_Witness ==
  /\ Done
  /\ \E c1, c2 \in DOMAIN log :
        /\ cells[c1] = cells[c2] /\ cells[c1].rel
        /\ log[c1].max_iter0 = 0 /\ log[c2].max_iter0 > 0
        /\ log[c2].it2 > 0 /\ max_iter = log[c2].max_iter0

\* vx^2 + vy^2 + vz^2 of the primitive state returned
V2 == Add(Add(SQR(w.vx), SQR(w.vy)), SQR(w.vz))

\* C12 as stated: for every admissible input the velocity returned by
\* SingleC2P_IdealSRMHD is below the speed of light.  The components
\* returned are read either as the velocity itself, vx^2 + vy^2 + vz^2 < 1,
\* or, as SingleP2C_IdealSRMHD reads them (u0 = sqrt(1 + vx^2 + vy^2 + vz^2)),
\* as the Lorentz factor times the velocity, whose speed
\* sqrt(V2 / (1 + V2)) is below 1 for every number V2.
C12_Stated ==
  (Returned /\ Relativistic /\ Admissible) => Lt(V2, One) \/ IsFinite(V2)

\* the caller has recomputed the conserved state of a relativistic call
RoundTrippedSR == pc = "rtsr"

\* the literal 1e-10
RelTol == Div(One, Mul(FromInt(100000), FromInt(100000)))

\* the relative error allowed in the round trip: 1e-10, and no less than
\* 2^(8-Prec), 256 spacings of Real at 1, so that a Real of few bits is
\* not refused for its rounding alone
SRRoundTripTol ==
  Fmax(RelTol, [k |-> "F", m |-> Pow2(Prec - 1), e |-> 9 - 2 * Prec])

\* a agrees with b to within the relative error SRRoundTripTol
CloseSR(a, b) == Le(Fabs(Sub(a, b)), Mul(SRRoundTripTol, Fabs(b)))

\* C13 as stated: for an input that satisfies the density floor and the
\* energy floor, SingleC2P_IdealSRMHD followed by SingleP2C_IdealSRMHD
\* returns density, momenta and energy that agree with the input to within
\* the relative error 1e-10.
C13_Stated ==
  (RoundTrippedSR /\ Admissible) =>
    /\ CloseSR(uc.d, Given.d)
    /\ CloseSR(uc.mx, Given.mx) /\ CloseSR(uc.my, Given.my)
    /\ CloseSR(uc.mz, Given.mz)
    /\ CloseSR(uc.e, Given.e)

\* the current call is given a static fluid of density 1 whose energy is
\* exactly pfloor/(gamma-1): eps = e/d and epsmin = pfloor/(d*(gamma-1))
\* are then the same number
AtEnergyFloor ==
  /\ Static /\ Given.d = One /\ Ge(Given.d, eos.dfloor)
  /\ Given.e = Div(eos.pfloor, gm1Of(eos))

\* C14 as stated: a conversion raises the energy-floor flag exactly when an
\* energy is strictly below its floor and is clamped: SingleC2P_IdealMHD
\* exactly when e - e_k - e_m < pfloor/(gamma-1); SingleC2P_IdealSRMHD
\* whenever u.e < pfloor/(gamma-1) + 0.5*b2, and only when it changes the
\* energy it is given or returns; an input exactly at the floor, for which
\* no value is changed, does not raise the flag.
C14_Stated ==
  Returned =>
    /\ ~Relativistic =>
          own.efloor_used =
            Lt(Sub(Sub(Given.e, KineticEnergy(Div(One, u.d), u)),
                   MagneticEnergy(u)),
               Div(eos.pfloor, gm1Of(eos)))
    /\ Relativistic =>
          /\ Lt(Given.e, SREnergyFloor(eos, CallerB2(Given)))
                => own.efloor_used
          /\ AtEnergyFloor => ~own.efloor_used

\* a loop of the solver is about to run an iteration
InLoop == pc \in {"loop1", "loop2"}

\* z lies between zm and zp, whichever of them is the larger
Between(z, zm, zp) ==
  \/ Le(zm, z) /\ Le(z, zp)
  \/ Le(zp, z) /\ Le(z, zm)

\* C15 as stated: in a phase whose initial fm and fp have strictly opposite
\* signs, every iteration starts with fm and fp of strictly opposite signs,
\* the denominator fp - fm of the interpolation is not zero, and the
\* candidate z = (zm*fp - zp*fm)/(fp - fm) lies between zm and zp.
C15_Stated ==
  (InLoop /\ opp0) =>
    /\ OppositeSigns(s.fm, s.fp)
    /\ ~(Sub(s.fp, s.fm) = Zero)
    /\ The({Between(z, s.zm, s.zp) :
              z \in {Interpolate(s.zm, s.zp, s.fm, s.fp)}})

\* a call has been entered: u is the caller's conserved state as the call
\* has left it so far
Entered == cur # 0

\* the momentum and the magnetic field of u are those the call was given
SameMomentumAndField ==
  /\ u.mx = Given.mx /\ u.my = Given.my /\ u.mz = Given.mz
  /\ u.bx = Given.bx /\ u.by = Given.by /\ u.bz = Given.bz

\* what a conserved-to-primitive call may have done to the caller's state
Frame ==
  /\ SameMomentumAndField
  /\ ~(u.d = Given.d) => Lt(Given.d, eos.dfloor)
  /\ ~(u.e = Given.e) => own.efloor_used
  /\ (own.dfloor_used /\ ~own.efloor_used) => u.e = Given.e
  /\ (~own.dfloor_used /\ ~own.efloor_used) => u = Given

\* C16: no step of SingleC2P_IdealMHD or SingleC2P_IdealSRMHD changes the
\* EOS parameters, and after every step of a call the momentum and the
\* magnetic field of the caller's conserved state are those given, u.d
\* differs from the given density only if that was below dfloor, u.e
\* differs from the given energy only if an energy floor was triggered, a
\* density floor alone leaves momentum and energy, and with no floor
\* triggered the conserved state is the one given.
C16_Frame == [][eos' = eos /\ (Entered' => Frame')]_vars

\* a relativistic call has returned with the density floor alone triggered:
\* the density is changed and nothing else
C16_Witness ==
  /\ Returned /\ Relativistic
  /\ own.dfloor_used /\ ~own.efloor_used
  /\ ~(u.d = Given.d) /\ u = [Given EXCEPT !.d = eos.dfloor]

\* a call has returned with an energy floor triggered and the energy changed
C16_WitnessEnergy ==
  /\ Returned /\ own.efloor_used /\ ~(u.e = Given.e)
  /\ u = [Given EXCEPT !.e = u.e]

\* the call has completed on every rank
AllDone == \A p \in Ranks : rk[p].pc = "done"

\* a rank has left through exit(EXIT_FAILURE)
SomeExited == \E p \in Ranks : rk[p].pc = "exited"

\* the number of lines of rank p in the file
LinesOf(p) == Cardinality({i \in DOMAIN file.data : file.data[i] = p})

\* rank 0 has created the file, written the header and closed the file
HeaderClosed ==
  /\ file.exists /\ LinesOf(HeaderLine) = 1 /\ file.data[1] = HeaderLine
  /\ rk[0].pc \notin {"start", "header", "closeh"} /\ rk[0].bars >= 0

\* rank q has written and flushed all of its lines
Flushed(q) ==
  rk[q].printed = nlines[q] /\ rk[q].buf = 0 /\ LinesOf(q) = nlines[q]

\* rank p is in the pass of the loop in which it writes its data
InOwnPass(p) == rk[p].pc = "body" /\ rk[p].r = p

\* the header before all data; the ranks one after the other in increasing
\* order; one writer in a barrier round
TableOrdered ==
  /\ (\E p \in Ranks : rk[p].printed > 0) => HeaderClosed
  /\ \A q, p \in Ranks : (q < p /\ rk[p].printed > 0) => Flushed(q)
  /\ \A i, j \in DOMAIN file.data : i < j => file.data[i] <= file.data[j]
  /\ \A p, q \in Ranks :
       (rk[p].pc = "body" /\ rk[q].pc = "body") => rk[p].r = rk[q].r
  /\ \A p, q \in Ranks : (InOwnPass(p) /\ InOwnPass(q)) => p = q

====
